---- MODULE Spec2Model ----
(***************************************************************************)
(* A model of the rust-physics-sandbox crate: the soft-body solver         *)
(* (soft_body.rs), the rigid/fluid world facade (physics.rs) and the       *)
(* Simulation front end with its command queue (lib.rs).                   *)
(*                                                                         *)
(* Numbers.  The program computes in f32.  The model computes in fixed     *)
(* point: a length is an integer number of 1/Scale metres, a velocity an   *)
(* integer number of 1/Scale metres per second, a time step an integer     *)
(* number of 1/Scale seconds.  Every product of two scaled quantities is   *)
(* divided by Scale again, rounding toward zero (Quot).  0-based Rust      *)
(* indices are kept 0-based; the TLA+ sequence element of index i is       *)
(* seq[i + 1].                                                             *)
(***************************************************************************)
EXTENDS Integers, Sequences, FiniteSets, TLC

VARIABLES
    \* ---- SoftBody (soft_body.rs) ----
    particles,      \* SoftBody.particles : Vec<Particle>
    springs,        \* SoftBody.springs   : Vec<Spring>
    prev,           \* history: the particles as they were before the last operation
    spawnPos,       \* history: the position each particle was created at
    last,           \* history: what the last SoftBody operation was and did
    nsteps,         \* history: number of SoftBody.step calls so far
    ncloths,        \* history: number of create_cloth calls so far
    env,            \* the caller's world: dt, gravity, colliders, cloth spacing and offset
    \* ---- PhysicsWorld (physics.rs) ----
    rigid_body_set, \* Vec of rigid bodies, slot i at element i + 1
    collider_set,   \* Vec of colliders,    slot i at element i + 1
    object_types,   \* HashMap<RigidBodyHandle, u32>
    fluid,          \* the one Fluid: the positions of its particles
    query_pipeline, \* what QueryPipeline.update last saw
    soft_bodies,    \* the cloths spawn_cloth made
    \* ---- Simulation (lib.rs) ----
    CMD_QUEUE,      \* the thread-local Vec<String>
    renderer,       \* Option<Renderer>: "None" or the instances last drawn
    console,        \* what log() has written
    sockets,        \* number of WebSockets whose onmessage pushes to CMD_QUEUE
    spawnedAt,      \* history: the shape and place each rigid body was spawned with
    trace,          \* history: what the last facade operation was and did
    ncalls          \* history: number of facade operations so far

sbVars == <<particles, springs, prev, spawnPos, last, nsteps, ncloths, env>>
worldVars == <<rigid_body_set, collider_set, object_types, fluid, query_pipeline,
               soft_bodies>>
simVars == <<CMD_QUEUE, renderer, console, sockets, spawnedAt, trace, ncalls>>
vars == <<sbVars, worldVars, simVars>>

----------------------------------------------------------------------------
(* Bounds of the model *)

MaxParticles == 6    \* most particles one SoftBody holds
MaxCloths == 2       \* create_cloth calls per behaviour
MaxSteps == 2        \* SoftBody.step calls per behaviour
MaxSpringSteps == 6  \* SoftBody.step calls on the two-particle system
MaxChainSteps == 3   \* SoftBody.step calls on the three-particle system
MaxPushed == 1       \* particles pushed with Particle::new directly
MaxCalls == 4        \* PhysicsWorld method calls per behaviour
MaxFluidBlocks == 1  \* blocks of fluid particles in the world
MaxSimCalls == 5     \* Simulation calls and callbacks per behaviour
MaxSockets == 1      \* connect_orchestrator calls per behaviour

----------------------------------------------------------------------------
(* Fixed-point arithmetic *)

\* one unit is a millimetre, a millimetre per second, a millisecond
Scale == 10 * 10 * 10

\* Division rounding toward zero (b > 0).
Quot(a, b) == IF a >= 0 THEN a \div b ELSE -((-a) \div b)

Abs(a) == IF a >= 0 THEN a ELSE -a

RECURSIVE SqrtSearch(_, _, _)
SqrtSearch(n, lo, hi) ==
    IF lo >= hi THEN lo
    ELSE LET mid == (lo + hi + 1) \div 2
         IN  IF mid * mid <= n THEN SqrtSearch(n, mid, hi)
                               ELSE SqrtSearch(n, lo, mid - 1)

\* Largest r with r * r <= n.
ISqrt(n) == SqrtSearch(n, 0, 46340)

\* nalgebra Vector3 / Point3
Vec(x, y, z) == <<x, y, z>>
Zero3 == Vec(0, 0, 0)
VAdd(a, b) == Vec(a[1] + b[1], a[2] + b[2], a[3] + b[3])
VSub(a, b) == Vec(a[1] - b[1], a[2] - b[2], a[3] - b[3])
Dot(a, b) == a[1] * b[1] + a[2] * b[2] + a[3] * b[3]
\* v * (num / den)
VMulDiv(v, num, den) == Vec(Quot(v[1] * num, den), Quot(v[2] * num, den), Quot(v[3] * num, den))
\* Vector3::norm, metric_distance
Norm(v) == ISqrt(Dot(v, v))

----------------------------------------------------------------------------
(* soft_body.rs: Particle, Spring, SoftBody *)

\* Particle::new
Particle_new(x, y, z, mass) ==
    [position |-> Vec(x, y, z),
     velocity |-> Zero3,
     mass     |-> mass,
     inv_mass |-> IF mass > 0 THEN Quot(Scale * Scale, mass) ELSE 0,
     pinned   |-> FALSE]

\* SoftBody::new
SoftBody_new == [particles |-> <<>>, springs |-> <<>>]

\* stiffness 100.0 and damping 0.5 (in tenths) given to every structural spring
ClothStiffness == 100
ClothDampingTenths == 5

\* SoftBody::add_spring
add_spring(sps, p1, p2, rest_length, stiffness, damping) ==
    Append(sps, [p1 |-> p1, p2 |-> p2, rest_length |-> rest_length,
                 stiffness |-> stiffness, damping |-> damping])

\* A pin test without its row test z == 0
PinsCorner_AnyRow(x, z, width) == x = 0 \/ x = width - 1

\* "Pin two corners": the test of create_cloth's particle loop
PinsCorner(x, z, width) == z = 0 /\ (x = 0 \/ x = width - 1)

\* The pushed particle when a corner is pinned without `p.inv_mass = 0.0`
ClothParticle_PinOnly(x, z, width, spacing, offset) ==
    LET p == Particle_new(offset[1] + x * spacing, offset[2],
                          offset[3] + z * spacing, Scale)
    IN  IF z = 0 /\ (x = 0 \/ x = width - 1)
        THEN [p EXCEPT !.pinned = TRUE]
        ELSE p

\* The particle create_cloth pushes for grid cell (x, z): unit mass.
ClothParticle(x, z, width, spacing, offset) ==
    LET p == Particle_new(offset[1] + x * spacing, offset[2],
                          offset[3] + z * spacing, Scale)
    IN  IF PinsCorner(x, z, width)
        THEN [p EXCEPT !.pinned = TRUE, !.inv_mass = 0]
        ELSE p

\* The particle loop over cells lo..hi: z outer, x inner, so cell (x, z) is the
\* k = z * width + x th pushed.  (Halving keeps the evaluation shallow.)
RECURSIVE ClothParticles(_, _, _, _, _)
ClothParticles(lo, hi, width, spacing, offset) ==
    IF lo > hi THEN <<>>
    ELSE IF lo = hi THEN <<ClothParticle(lo % width, lo \div width, width, spacing, offset)>>
    ELSE LET mid == (lo + hi) \div 2
         IN  ClothParticles(lo, mid, width, spacing, offset)
             \o ClothParticles(mid + 1, hi, width, spacing, offset)

\* "Structural right": the guard of the first add_spring
HasRight(x, width) == x < width - 1
\* "Structural down": the guard of the second add_spring
HasDown(z, height) == z < height - 1

\* The springs the loop body adds for cell k: right, then down.
CellSprings(k, start_idx, width, height, spacing) ==
    LET x == k % width
        z == k \div width
        idx == start_idx + z * width + x
        s1 == IF HasRight(x, width)
              THEN add_spring(<<>>, idx, idx + 1, spacing,
                              ClothStiffness * Scale, Quot(ClothDampingTenths * Scale, 10))
              ELSE <<>>
    IN  IF HasDown(z, height)
        THEN add_spring(s1, idx, idx + width, spacing,
                        ClothStiffness * Scale, Quot(ClothDampingTenths * Scale, 10))
        ELSE s1

\* The spring loop over cells lo..hi
RECURSIVE ClothSprings(_, _, _, _, _, _)
ClothSprings(lo, hi, start_idx, width, height, spacing) ==
    IF lo > hi THEN <<>>
    ELSE IF lo = hi THEN CellSprings(lo, start_idx, width, height, spacing)
    ELSE LET mid == (lo + hi) \div 2
         IN  ClothSprings(lo, mid, start_idx, width, height, spacing)
             \o ClothSprings(mid + 1, hi, start_idx, width, height, spacing)

\* create_cloth with start_idx taken as 0 instead of the current particle count
create_cloth_FromZero(b, width, height, spacing, offset) ==
    [particles |-> b.particles
                   \o ClothParticles(0, width * height - 1, width, spacing, offset),
     springs   |-> b.springs
                   \o ClothSprings(0, width * height - 1, 0, width, height, spacing)]

\* SoftBody::create_cloth, on the body b
create_cloth(b, width, height, spacing, offset) ==
    LET start_idx == Len(b.particles)
    IN  [particles |-> b.particles
                       \o ClothParticles(0, width * height - 1, width, spacing, offset),
         springs   |-> b.springs
                       \o ClothSprings(0, width * height - 1, start_idx, width, height,
                                       spacing)]

----------------------------------------------------------------------------
(* soft_body.rs: SoftBody::step *)

\* let iterations = 2
Iterations == 2
\* if dist < 1e-4: 1e-4 is 1 / EpsDen
EpsDen == 10000
\* delta * 0.5 * diff * 0.8, in tenths
HalfTenths == 5
StiffTenths == 8
\* velocity *= 0.999, in thousandths
RelaxDampMilli == 999
\* let particle_radius = 0.1, in tenths
RadiusTenths == 1
\* floor friction 0.9, collision damping 0.5 and 0.9, in tenths
FrictionTenths == 9
InsideDampTenths == 5
NearDampTenths == 9

particle_radius == Quot(RadiusTenths * Scale, 10)

\* A gravity phase that subtracts gravity * dt
GravityOn_Subtracted(p, gravity, dt) ==
    IF p.pinned THEN p
    ELSE [p EXCEPT !.velocity = VSub(@, VMulDiv(gravity, dt, Scale))]

\* A gravity phase that does not skip the pinned particles
GravityOn_PinnedToo(p, gravity, dt) ==
    [p EXCEPT !.velocity = VAdd(@, VMulDiv(gravity, dt, Scale))]

\* 1. Apply gravity: one particle
GravityOn(p, gravity, dt) ==
    IF p.pinned THEN p
    ELSE [p EXCEPT !.velocity = VAdd(@, VMulDiv(gravity, dt, Scale))]

\* for p in &mut self.particles
\* (SubSeq makes TLC build the sequence here, once.)
ApplyGravity(ps, gravity, dt) ==
    SubSeq([i \in 1..Len(ps) |-> GravityOn(ps[i], gravity, dt)], 1, Len(ps))

\* if dist < 1e-4 { continue; }
Degenerate(dist) == dist * EpsDen < Scale

\* A correction of the opposite sign
Correction_Reversed(delta, dist, rest_length) ==
    VMulDiv(delta, (rest_length - dist) * HalfTenths * StiffTenths, dist * 100)

\* correction = delta * 0.5 * diff * 0.8 with diff = (dist - rest_length) / dist
Correction(delta, dist, rest_length) ==
    VMulDiv(delta, (dist - rest_length) * HalfTenths * StiffTenths, dist * 100)

\* A first-particle move without its pinned test
MoveP1_Unguarded(ps, i1, p1, correction) ==
    [ps EXCEPT ![i1 + 1].position = VAdd(@, correction),
               ![i1 + 1].velocity = VMulDiv(@, RelaxDampMilli, 1000)]

\* The endpoint writes of one spring visit: p1 and p2 are the copies read first.
MoveP1(ps, i1, p1, correction) ==
    IF ~p1.pinned
    THEN [ps EXCEPT ![i1 + 1].position = VAdd(@, correction),
                    ![i1 + 1].velocity = VMulDiv(@, RelaxDampMilli, 1000)]
    ELSE ps

\* A second-particle move that adds the correction
MoveP2_Added(ps, i2, p2, correction) ==
    IF ~p2.pinned
    THEN [ps EXCEPT ![i2 + 1].position = VAdd(@, correction),
                    ![i2 + 1].velocity = VMulDiv(@, RelaxDampMilli, 1000)]
    ELSE ps

MoveP2(ps, i2, p2, correction) ==
    IF ~p2.pinned
    THEN [ps EXCEPT ![i2 + 1].position = VSub(@, correction),
                    ![i2 + 1].velocity = VMulDiv(@, RelaxDampMilli, 1000)]
    ELSE ps

\* One visit of one spring in the relaxation loop
RelaxSpring(ps, spring) ==
    LET p1 == ps[spring.p1 + 1]
        p2 == ps[spring.p2 + 1]
        delta == VSub(p2.position, p1.position)
        dist == Norm(delta)
    IN  IF Degenerate(dist) THEN ps
        ELSE LET correction == Correction(delta, dist, spring.rest_length)
             IN  MoveP2(MoveP1(ps, spring.p1, p1, correction), spring.p2, p2, correction)

\* The visits of springs lo..hi (1-based) in stored order, each on the
\* particles the one before left.  (Halving keeps the evaluation shallow.)
RECURSIVE RelaxRange(_, _, _, _)
RelaxRange(ps, sps, lo, hi) ==
    IF lo > hi THEN ps
    ELSE IF lo = hi THEN RelaxSpring(ps, sps[lo])
    ELSE LET mid == (lo + hi) \div 2
             next == RelaxRange(ps, sps, lo, mid)
         IN  \* (the test makes TLC compute next here, before it goes on)
             IF Len(next) = 0 THEN next ELSE RelaxRange(next, sps, mid + 1, hi)

\* A pass that ends at the first degenerate spring
RECURSIVE BreakAtDegenerate(_, _, _)
BreakAtDegenerate(ps, sps, k) ==
    IF k > Len(sps) THEN ps
    ELSE IF Degenerate(Norm(VSub(ps[sps[k].p2 + 1].position, ps[sps[k].p1 + 1].position)))
    THEN ps
    ELSE LET next == RelaxSpring(ps, sps[k])
         IN  IF Len(next) = 0 THEN next ELSE BreakAtDegenerate(next, sps, k + 1)

RelaxPass_BreakAtDegenerate(ps, sps) == BreakAtDegenerate(ps, sps, 1)

\* for spring in &self.springs
RelaxPass(ps, sps) == RelaxRange(ps, sps, 1, Len(sps))

\* A relaxation that stops before a pass when every spring is at its rest
\* length or degenerate
RECURSIVE Relax_UntilAtRest(_, _, _)
Relax_UntilAtRest(ps, sps, iters) ==
    IF iters = 0 THEN ps
    ELSE IF \A k \in 1..Len(sps) :
               LET dist == Norm(VSub(ps[sps[k].p2 + 1].position, ps[sps[k].p1 + 1].position))
               IN  Degenerate(dist) \/ dist = sps[k].rest_length
    THEN ps
    ELSE LET next == RelaxPass(ps, sps)
         IN  IF Len(next) = 0 THEN next ELSE Relax_UntilAtRest(next, sps, iters - 1)

\* for _ in 0..iterations
RECURSIVE Relax(_, _, _)
Relax(ps, sps, iters) ==
    IF iters = 0 THEN ps
    ELSE LET next == RelaxPass(ps, sps)
         IN  IF Len(next) = 0 THEN next ELSE Relax(next, sps, iters - 1)

\* Proposed new position: p.position + p.velocity * dt
Tentative(p, dt) == VAdd(p.position, VMulDiv(p.velocity, dt, Scale))

\* A floor clamp that leaves the vertical velocity as it was
FloorClamp_KeepVy(new_pos, velocity) ==
    IF new_pos[2] < 0
    THEN [pos |-> Vec(new_pos[1], 0, new_pos[3]),
          vel |-> Vec(Quot(velocity[1] * FrictionTenths, 10), velocity[2],
                      Quot(velocity[3] * FrictionTenths, 10))]
    ELSE [pos |-> new_pos, vel |-> velocity]

\* Floor collision (simple): the position and velocity after it
FloorClamp(new_pos, velocity) ==
    IF new_pos[2] < 0
    THEN [pos |-> Vec(new_pos[1], 0, new_pos[3]),
          vel |-> Vec(Quot(velocity[1] * FrictionTenths, 10), 0,
                      Quot(velocity[3] * FrictionTenths, 10))]
    ELSE [pos |-> new_pos, vel |-> velocity]

Clamp(v, lo, hi) == IF v < lo THEN lo ELSE IF v > hi THEN hi ELSE v

\* parry's solid projection of a point on an axis-aligned cuboid collider
\* [c |-> centre, h |-> half extents]: an interior or boundary point projects on
\* itself and is reported inside.
ProjectOnCuboid(co, point) ==
    LET q == Vec(Clamp(point[1], co.c[1] - co.h[1], co.c[1] + co.h[1]),
                 Clamp(point[2], co.c[2] - co.h[2], co.c[2] + co.h[2]),
                 Clamp(point[3], co.c[3] - co.h[3], co.c[3] + co.h[3]))
    IN  [found |-> TRUE, point |-> q, is_inside |-> (q = point)]

NoProjection == [found |-> FALSE, point |-> Zero3, is_inside |-> FALSE]

SqDist(a, b) == Dot(VSub(a, b), VSub(a, b))

\* query_pipeline.project_point(rigid_bodies, colliders, &point, solid = true, ..):
\* the projection on the closest collider, None when there is no collider.
project_point(colls, point) ==
    IF Len(colls) = 0 THEN NoProjection
    ELSE LET d(i) == SqDist(ProjectOnCuboid(colls[i], point).point, point)
             best == CHOOSE i \in 1..Len(colls) :
                        \A j \in 1..Len(colls) : d(i) < d(j) \/ (d(i) = d(j) /\ i <= j)
         IN  ProjectOnCuboid(colls[best], point)

\* A collision step whose near-surface push is the whole radius
RigidCollide_FullPush(new_pos, velocity, colls) ==
    LET projection == project_point(colls, new_pos)
        dist == Norm(VSub(new_pos, projection.point))
    IN  IF ~projection.found THEN [pos |-> new_pos, vel |-> velocity]
        ELSE IF projection.is_inside
        THEN [pos |-> projection.point,
              vel |-> VMulDiv(velocity, InsideDampTenths, 10)]
        ELSE IF dist < particle_radius
        THEN [pos |-> VAdd(new_pos, VMulDiv(VSub(new_pos, projection.point),
                                            particle_radius, dist)),
              vel |-> VMulDiv(velocity, NearDampTenths, 10)]
        ELSE [pos |-> new_pos, vel |-> velocity]

\* Rigid Body Collision (Rapier): the position and velocity after it
RigidCollide(new_pos, velocity, colls) ==
    LET projection == project_point(colls, new_pos)
        dist == Norm(VSub(new_pos, projection.point))
    IN  IF ~projection.found THEN [pos |-> new_pos, vel |-> velocity]
        ELSE IF projection.is_inside
        THEN [pos |-> projection.point,
              vel |-> VMulDiv(velocity, InsideDampTenths, 10)]
        ELSE IF dist < particle_radius
        THEN [pos |-> VAdd(new_pos, VMulDiv(VSub(new_pos, projection.point),
                                            particle_radius - dist, dist)),
              vel |-> VMulDiv(velocity, NearDampTenths, 10)]
        ELSE [pos |-> new_pos, vel |-> velocity]

\* 3. Integrate position & resolve collisions: one particle
IntegrateParticle(p, dt, colls) ==
    IF p.pinned THEN p
    ELSE LET f == FloorClamp(Tentative(p, dt), p.velocity)
             r == RigidCollide(f.pos, f.vel, colls)
         IN  [p EXCEPT !.position = r.pos, !.velocity = r.vel]

\* for p in &mut self.particles
Integrate(ps, dt, colls) ==
    SubSeq([i \in 1..Len(ps) |-> IntegrateParticle(ps[i], dt, colls)], 1, Len(ps))

\* The particles after phases 1 and 2 of SoftBody::step
Relaxed(b, dt, gravity) ==
    Relax(ApplyGravity(b.particles, gravity, dt), b.springs, Iterations)

\* SoftBody::step, on the body b
SoftBody_step(b, dt, gravity, colls) ==
    [particles |-> Integrate(Relaxed(b, dt, gravity), dt, colls),
     springs   |-> b.springs]

----------------------------------------------------------------------------
(* physics.rs: PhysicsWorld.  The world is the record                      *)
(*   [rigid_body_set, collider_set, object_types, fluid, query_pipeline].  *)
(* rapier's sets are arenas: a handle is (index, generation); nothing is   *)
(* ever removed here, so an insert takes the next slot at generation 0.    *)
(* Bodies do not rotate in the model and the engines' contact forces are   *)
(* left out: a step integrates gravity.                                    *)

\* Option<T>
None == [some |-> FALSE, value |-> 0]
Some(v) == [some |-> TRUE, value |-> v]

\* What trace holds before any call
NoCall == [op |-> "new", handle_idx |-> 0, result |-> None]

Handle(index) == [index |-> index, generation |-> 0]

\* gravity: vector![0.0, -9.81, 0.0]
WorldGravity == Vec(0, -9810, 0)
\* IntegrationParameters::default(): dt = 1 / 60
WorldDtDen == 60
\* spawn_liquid: let n = 5; let d = 0.2 (in tenths)
LiquidN == 5
LiquidSpacingTenths == 2
\* cast_ray: let max_toi = 100.0
MaxToi == 100
\* object type tags: 0 = Box, 1 = Sphere, 2 = Liquid
TypeBox == 0
TypeSphere == 1
TypeLiquid == 2

\* PhysicsWorld::new
PhysicsWorld_new ==
    [rigid_body_set |-> <<>>,
     collider_set   |-> <<>>,
     object_types   |-> <<>>,
     fluid          |-> [positions |-> <<>>, velocities |-> <<>>],
     query_pipeline |-> <<>>,
     soft_bodies    |-> <<>>,
     phases         |-> <<>>]

\* RigidBodyBuilder::dynamic().translation(..).build() / ::fixed().build()
RigidBody(body_type, translation) ==
    [handle |-> Handle(0), body_type |-> body_type, translation |-> translation,
     linvel |-> Zero3, rotation |-> <<0, 0, 0, Scale>>, inv_mass |-> 0,
     colliders |-> <<>>]

\* ColliderBuilder::cuboid(hx, hy, hz) / ::ball(r), density 1
Cuboid(hx, hy, hz) == [kind |-> "cuboid", h |-> Vec(hx, hy, hz),
                       mass |-> Quot(Quot(4 * hx * hy, Scale) * Quot(2 * hz, 100), 10)]
\* a ball's volume is 4/3 pi r^3, pi taken as 3.1416
Ball(r) == [kind |-> "ball", h |-> Vec(r, r, r),
            mass |-> Quot(Quot(Quot(4 * 31416 * r, 30000) * r, Scale) * r, Scale)]

\* rigid_body_set.insert(body) followed by
\* collider_set.insert_with_parent(collider, body_handle, &mut rigid_body_set):
\* the collider takes the body's position and gives it its mass.
InsertBodyWithCollider(w, body, shape) ==
    LET body_handle == Handle(Len(w.rigid_body_set))
        co_handle == Handle(Len(w.collider_set))
        co == [handle |-> co_handle, parent |-> body_handle, shape |-> shape,
               c |-> body.translation]
        rb == [body EXCEPT !.handle = body_handle,
                           !.colliders = <<co_handle>>,
                           !.inv_mass = IF body.body_type = "dynamic" /\ shape.mass > 0
                                        THEN Quot(Scale * Scale, shape.mass) ELSE 0]
    IN  [w EXCEPT !.rigid_body_set = Append(@, rb),
                  !.collider_set = Append(@, co)]

\* A spawn that forgets the registry
RegistryInsert_Forgotten(types, handle, tag) == types

\* object_types.insert(handle, tag)
RegistryInsert(types, handle, tag) ==
    [h \in (DOMAIN types) \cup {handle} |-> IF h = handle THEN tag ELSE types[h]]

LastBodyHandle(w) == w.rigid_body_set[Len(w.rigid_body_set)].handle

\* PhysicsWorld::spawn_box
spawn_box(w, x, y, z) ==
    LET w1 == InsertBodyWithCollider(w, RigidBody("dynamic", Vec(x, y, z)),
                                     Cuboid(Scale \div 2, Scale \div 2, Scale \div 2))
    IN  [w1 EXCEPT !.object_types = RegistryInsert(@, LastBodyHandle(w1), TypeBox)]

\* A floor made of two slabs: one body with two colliders
spawn_floor_TwoSlabs(w) ==
    LET w1 == InsertBodyWithCollider(w, RigidBody("fixed", Zero3),
                                     Cuboid(100 * Scale, Scale \div 10, 100 * Scale))
        body_handle == LastBodyHandle(w1)
        co == [w1.collider_set[Len(w1.collider_set)] EXCEPT
                  !.handle = Handle(Len(w1.collider_set))]
    IN  [w1 EXCEPT !.rigid_body_set[Len(w1.rigid_body_set)].colliders = Append(@, co.handle),
                   !.collider_set = Append(@, co),
                   !.object_types = RegistryInsert(@, body_handle, TypeBox)]

\* PhysicsWorld::spawn_floor
spawn_floor(w) ==
    LET w1 == InsertBodyWithCollider(w, RigidBody("fixed", Zero3),
                                     Cuboid(100 * Scale, Scale \div 10, 100 * Scale))
    IN  [w1 EXCEPT !.object_types = RegistryInsert(@, LastBodyHandle(w1), TypeBox)]

\* PhysicsWorld::spawn_sphere
spawn_sphere(w, x, y, z) ==
    LET w1 == InsertBodyWithCollider(w, RigidBody("dynamic", Vec(x, y, z)),
                                     Ball(Scale \div 2))
    IN  [w1 EXCEPT !.object_types = RegistryInsert(@, LastBodyHandle(w1), TypeSphere)]

\* The block of points spawn_liquid pushes: k counts (i, j, k) with k fastest.
LiquidBlock(x, y, z) ==
    LET d == Quot(LiquidSpacingTenths * Scale, 10)
        n == LiquidN
    IN  [m \in 1..(n * n * n) |->
            Vec(x + ((m - 1) \div (n * n)) * d,
                y + (((m - 1) \div n) % n) * d,
                z + ((m - 1) % n) * d)]

\* PhysicsWorld::spawn_liquid: fluid.add_particles(&particles, None)
spawn_liquid(w, x, y, z) ==
    LET block == LiquidBlock(x, y, z)
    IN  [w EXCEPT !.fluid.positions = @ \o block,
                  !.fluid.velocities = @ \o [m \in DOMAIN block |-> Zero3]]

\* What the facade adds to what physics.rs shows: lib.rs calls spawn_cloth,
\* spawn_avalanche and spawn_tsunami on the world.  A cloth is a fresh SoftBody
\* holding one width x height grid at (x, y, z); the two presets are built
\* from the spawn primitives above.
ClothSpacing == Scale \div 5
PresetBodies == 2

spawn_cloth(w, x, y, z, width, height) ==
    [w EXCEPT !.soft_bodies =
        Append(@, create_cloth(SoftBody_new, width, height, ClothSpacing, Vec(x, y, z)))]

RECURSIVE SpawnPile(_, _, _, _, _)
SpawnPile(w, x, y, z, k) ==
    IF k = 0 THEN w
    ELSE LET w1 == IF k % 2 = 0 THEN spawn_box(w, x, y, z) ELSE spawn_sphere(w, x, y, z)
         IN  SpawnPile(w1, x, y + Scale, z, k - 1)

spawn_avalanche(w, x, y, z) == SpawnPile(w, x, y, z, PresetBodies)

spawn_tsunami(w, x, y, z) == spawn_liquid(w, x, y, z)

\* query_pipeline.update(&rigid_body_set, &collider_set): the bounding box of
\* every collider as it is now
QueryPipeline_update(w) ==
    [i \in 1..Len(w.collider_set) |->
        [handle |-> w.collider_set[i].handle, c |-> w.collider_set[i].c,
         h |-> w.collider_set[i].shape.h]]

\* What the field phases notes of one advance inside a step: which subsystem
\* (for a soft body, which one) and the rigid bodies it was handed.
Phase(phase, k, w) == [phase |-> phase, k |-> k, sees |-> w.rigid_body_set]

\* pipeline.step(..): a rigid body after one sub-step
StepBody1(b) ==
    IF b.body_type # "dynamic" THEN b
    ELSE LET v == VAdd(b.linvel, VMulDiv(WorldGravity, 1, WorldDtDen))
         IN  [b EXCEPT !.linvel = v, !.translation = VAdd(@, VMulDiv(v, 1, WorldDtDen))]

Pipeline_step(w) ==
    LET bodies == [i \in 1..Len(w.rigid_body_set) |-> StepBody1(w.rigid_body_set[i])]
    IN  [w EXCEPT !.phases = Append(@, Phase("rigid", 0, w)),
                  !.rigid_body_set = bodies,
                  !.collider_set = [i \in 1..Len(w.collider_set) |->
                      [w.collider_set[i] EXCEPT
                          !.c = bodies[w.collider_set[i].parent.index + 1].translation]]]

\* fluid_pipeline.step(&gravity, dt, &collider_set, &mut rigid_body_set)
FluidsPipeline_step(w) ==
    LET vel == [m \in 1..Len(w.fluid.positions) |->
                   VAdd(w.fluid.velocities[m], VMulDiv(WorldGravity, 1, WorldDtDen))]
    IN  [w EXCEPT !.phases = Append(@, Phase("fluid", 0, w)),
                  !.fluid.velocities = vel,
                  !.fluid.positions = [m \in 1..Len(w.fluid.positions) |->
                      VAdd(w.fluid.positions[m], VMulDiv(vel[m], 1, WorldDtDen))]]

\* The step of the soft-body solver that goes with one world sub-step of
\* 1/60 s, in thousandths of a second
SoftDt == (Scale + WorldDtDen \div 2) \div WorldDtDen

\* The soft bodies spawn_cloth keeps, each stepped once against the collision
\* query state (not in physics.rs; as the specification describes the step).
SoftBodies_step(w) ==
    [w EXCEPT !.phases = @ \o [i \in 1..Len(w.soft_bodies) |-> Phase("soft", i, w)],
              !.soft_bodies =
        [i \in 1..Len(w.soft_bodies) |->
            SoftBody_step(w.soft_bodies[i], SoftDt, WorldGravity, w.query_pipeline)]]

\* A step that advances the fluid before the rigid bodies
PhysicsWorld_step_FluidFirst(w) ==
    LET w1 == [w EXCEPT !.query_pipeline = QueryPipeline_update(w)]
        w2 == FluidsPipeline_step(w1)
    IN  SoftBodies_step(Pipeline_step(w2))

\* PhysicsWorld::step
PhysicsWorld_step(w) ==
    LET w1 == [w EXCEPT !.query_pipeline = QueryPipeline_update(w)]
        w2 == Pipeline_step(w1)
    IN  SoftBodies_step(FluidsPipeline_step(w2))

\* Time of impact of the vertical ray (origin, dir) with the box of centre c and
\* half extents h, in length units; -1 when it misses.  dir is (0, +-1, 0).
RayBoxToi(c, h, origin, dir) ==
    IF Abs(origin[1] - c[1]) > h[1] \/ Abs(origin[3] - c[3]) > h[3] THEN -1
    ELSE IF Abs(origin[2] - c[2]) <= h[2] THEN 0
    ELSE IF dir[2] < 0 /\ origin[2] > c[2] THEN origin[2] - (c[2] + h[2])
    ELSE IF dir[2] > 0 /\ origin[2] < c[2] THEN (c[2] - h[2]) - origin[2]
    ELSE -1

\* The same for a collider's shape where it is now
RayShapeToi(co, origin, dir) ==
    IF co.shape.kind = "cuboid" THEN RayBoxToi(co.c, co.shape.h, origin, dir)
    ELSE LET r == co.shape.h[1]
             dx == origin[1] - co.c[1]
             dz == origin[3] - co.c[3]
         IN  IF dx * dx + dz * dz > r * r THEN -1
             ELSE RayBoxToi(co.c, Vec(r, ISqrt(r * r - dx * dx - dz * dz), r), origin, dir)

\* The colliders the ray reaches: known to the query pipeline, their recorded
\* bounding box on the ray, their shape on the ray within max_toi
RayHits(w, origin, dir) ==
    {i \in 1..Len(w.query_pipeline) :
        LET leaf == w.query_pipeline[i]
            toi == RayShapeToi(w.collider_set[leaf.handle.index + 1], origin, dir)
        IN  /\ RayBoxToi(leaf.c, leaf.h, origin, dir) >= 0
            /\ RayBoxToi(leaf.c, leaf.h, origin, dir) <= MaxToi * Scale
            /\ toi >= 0 /\ toi <= MaxToi * Scale}

\* PhysicsWorld::cast_ray: the slot index of the first collider hit
cast_ray(w, origin, dir) ==
    LET hits == RayHits(w, origin, dir)
        toi(i) == RayShapeToi(w.collider_set[w.query_pipeline[i].handle.index + 1],
                              origin, dir)
    IN  IF hits = {} THEN None
        ELSE LET first == CHOOSE i \in hits :
                             \A j \in hits : toi(i) < toi(j) \/ (toi(i) = toi(j) /\ i <= j)
             IN  Some(w.query_pipeline[first].handle.index)

\* A lookup that settles for the last body when none has the index
FindBody_OrLast(w, handle_idx) ==
    LET found == {i \in 1..Len(w.rigid_body_set) :
                     w.rigid_body_set[i].handle.index = handle_idx}
    IN  IF found # {} THEN Some(CHOOSE i \in found : \A j \in found : i <= j)
        ELSE IF Len(w.rigid_body_set) > 0 THEN Some(Len(w.rigid_body_set))
        ELSE None

\* The loop of apply_impulse: the first body whose slot index is handle_idx
FindBody(w, handle_idx) ==
    LET found == {i \in 1..Len(w.rigid_body_set) :
                     w.rigid_body_set[i].handle.index = handle_idx}
    IN  IF found = {} THEN None
        ELSE Some(CHOOSE i \in found : \A j \in found : i <= j)

\* RigidBody::apply_impulse(impulse, true)
Body_apply_impulse(b, impulse) ==
    IF b.body_type = "dynamic"
    THEN [b EXCEPT !.linvel = VAdd(@, VMulDiv(impulse, b.inv_mass, Scale))]
    ELSE b

\* PhysicsWorld::apply_impulse
apply_impulse(w, handle_idx, x, y, z) ==
    LET target == FindBody(w, handle_idx)
    IN  IF target.some
        THEN [w EXCEPT !.rigid_body_set[target.value] =
                            Body_apply_impulse(@, Vec(x, y, z))]
        ELSE w

\* PhysicsWorld::get_first_object_y
get_first_object_y(w) ==
    LET dyn == {i \in 1..Len(w.rigid_body_set) : w.rigid_body_set[i].body_type = "dynamic"}
    IN  IF dyn = {} THEN 0
        ELSE w.rigid_body_set[CHOOSE i \in dyn : \A j \in dyn : i <= j].translation[2]

\* The 8 floats get_render_data pushes for one rigid body
BodyRecord(w, b) ==
    <<b.translation[1], b.translation[2], b.translation[3],
      b.rotation[1], b.rotation[2], b.rotation[3], b.rotation[4],
      IF b.handle \in DOMAIN w.object_types THEN w.object_types[b.handle] ELSE 0>>

\* The 8 floats get_render_data pushes for one fluid particle
FluidRecord(particle) ==
    <<particle[1], particle[2], particle[3], 0, 0, 0, Scale, TypeLiquid>>

\* for (handle, body) in rigid_body_set.iter(): bodies lo..hi in slot order
RECURSIVE PushBodies(_, _, _)
PushBodies(w, lo, hi) ==
    IF lo > hi THEN <<>>
    ELSE IF lo = hi THEN BodyRecord(w, w.rigid_body_set[lo])
    ELSE LET mid == (lo + hi) \div 2
         IN  PushBodies(w, lo, mid) \o PushBodies(w, mid + 1, hi)

\* for particle in &fluid.positions: particles lo..hi in order
RECURSIVE PushFluid(_, _, _)
PushFluid(w, lo, hi) ==
    IF lo > hi THEN <<>>
    ELSE IF lo = hi THEN FluidRecord(w.fluid.positions[lo])
    ELSE LET mid == (lo + hi) \div 2
         IN  PushFluid(w, lo, mid) \o PushFluid(w, mid + 1, hi)

\* A render buffer with the fluid particles ahead of the rigid bodies
get_render_data_FluidFirst(w) ==
    PushFluid(w, 1, Len(w.fluid.positions)) \o PushBodies(w, 1, Len(w.rigid_body_set))

\* PhysicsWorld::get_render_data
get_render_data(w) ==
    PushBodies(w, 1, Len(w.rigid_body_set)) \o PushFluid(w, 1, Len(w.fluid.positions))

----------------------------------------------------------------------------
(* lib.rs: Simulation, its command queue, and what it uses of render.rs.    *)
(* A simulation is the record [physics, renderer, queue, console]: queue is *)
(* the thread-local CMD_QUEUE, console what log() has written.              *)

\* The texts a socket delivers here, with what
\* serde_json::from_str::<SimCommand> makes of each: Ok(SimCommand) for a JSON
\* object with a string "cmd" and optional numbers "x", "y", "z", Err otherwise.
Texts ==
    { "{\"cmd\":\"spawn_box\"}",
      "{\"cmd\":\"spawn_sphere\",\"x\":0,\"y\":3,\"z\":0}",
      "{\"cmd\":\"spawn_liquid\",\"y\":1}",
      "{\"cmd\":\"spawn_cloth\"}",
      "{\"cmd\":\"spawn_avalanche\"}",
      "{\"cmd\":\"spawn_tsunami\",\"x\":2}",
      "{\"cmd\":\"explode\"}",
      "{\"cmd\":" }

SimCommand(cmd, x, y, z) == [cmd |-> cmd, x |-> x, y |-> y, z |-> z]
Ok(v) == [ok |-> TRUE, value |-> v]
Err == [ok |-> FALSE, value |-> SimCommand("", None, None, None)]

from_str(txt) ==
    CASE txt = "{\"cmd\":\"spawn_box\"}" ->
            Ok(SimCommand("spawn_box", None, None, None))
      [] txt = "{\"cmd\":\"spawn_sphere\",\"x\":0,\"y\":3,\"z\":0}" ->
            Ok(SimCommand("spawn_sphere", Some(0), Some(3 * Scale), Some(0)))
      [] txt = "{\"cmd\":\"spawn_liquid\",\"y\":1}" ->
            Ok(SimCommand("spawn_liquid", None, Some(Scale), None))
      [] txt = "{\"cmd\":\"spawn_cloth\"}" ->
            Ok(SimCommand("spawn_cloth", None, None, None))
      [] txt = "{\"cmd\":\"spawn_avalanche\"}" ->
            Ok(SimCommand("spawn_avalanche", None, None, None))
      [] txt = "{\"cmd\":\"spawn_tsunami\",\"x\":2}" ->
            Ok(SimCommand("spawn_tsunami", Some(2 * Scale), None, None))
      [] txt = "{\"cmd\":\"explode\"}" ->
            Ok(SimCommand("explode", None, None, None))
      [] OTHER -> Err

\* Option::unwrap_or
unwrap_or(opt, default) == IF opt.some THEN opt.value ELSE default

\* Simulation::new
Simulation_new ==
    [physics |-> PhysicsWorld_new, renderer |-> None, queue |-> <<>>, console |-> <<>>]

\* let instance_capacity = 100
InstanceCapacity == 100

\* Renderer::new, as far as the instance buffer goes
Renderer_new == [instance_count |-> 0, instance_capacity |-> InstanceCapacity]

\* Renderer::render: one instance per 8 floats, the buffer doubled when short
Renderer_render(r, physics) ==
    LET instance_count == Len(get_render_data(physics)) \div 8
    IN  [instance_count |-> instance_count,
         instance_capacity |-> IF instance_count > r.instance_capacity
                               THEN instance_count * 2 ELSE r.instance_capacity]

\* A match that takes an unknown name for spawn_box
Dispatch_DefaultBox(sim, cmd) ==
    [sim EXCEPT !.physics = spawn_box(@, unwrap_or(cmd.x, 0), unwrap_or(cmd.y, 5 * Scale),
                                      unwrap_or(cmd.z, 0))]

\* match cmd.cmd.as_str() { .. }
Dispatch(sim, cmd) ==
    LET x == unwrap_or(cmd.x, 0)
        y == unwrap_or(cmd.y, 5 * Scale)
        z == unwrap_or(cmd.z, 0)
    IN  CASE cmd.cmd = "spawn_box" -> [sim EXCEPT !.physics = spawn_box(@, x, y, z)]
          [] cmd.cmd = "spawn_sphere" -> [sim EXCEPT !.physics = spawn_sphere(@, x, y, z)]
          [] cmd.cmd = "spawn_liquid" -> [sim EXCEPT !.physics = spawn_liquid(@, x, y, z)]
          [] cmd.cmd = "spawn_cloth" ->
                [sim EXCEPT !.physics = spawn_cloth(@, x, y, z, 10, 10)]
          [] cmd.cmd = "spawn_avalanche" ->
                [sim EXCEPT !.physics = spawn_avalanche(@, x, y, z)]
          [] cmd.cmd = "spawn_tsunami" -> [sim EXCEPT !.physics = spawn_tsunami(@, x, y, z)]
          [] OTHER -> [sim EXCEPT !.console = Append(@, <<"Unknown command: ", cmd.cmd>>)]

\* The body of the loop over the drained queue: one text
ProcessCommand(sim, cmd_str) ==
    LET parsed == from_str(cmd_str)
    IN  IF parsed.ok THEN Dispatch(sim, parsed.value) ELSE sim

\* A drain that takes the first text only
Drain_HeadOnly(sim) ==
    IF sim.queue = <<>> THEN sim
    ELSE [ProcessCommand(sim, Head(sim.queue)) EXCEPT !.queue = Tail(sim.queue)]

\* for cmd_str in queue.drain(..) { .. }: every text, first to last; the queue
\* is empty afterwards
RECURSIVE Drain(_)
Drain(sim) ==
    IF sim.queue = <<>> THEN sim
    ELSE LET next == [ProcessCommand(sim, Head(sim.queue)) EXCEPT !.queue = Tail(sim.queue)]
         IN  IF Len(next.queue) < 0 THEN next ELSE Drain(next)

\* Simulation::step
Simulation_step(sim) ==
    LET drained == Drain(sim)
        stepped == [drained EXCEPT !.physics = PhysicsWorld_step(@)]
    IN  IF stepped.renderer.some
        THEN [stepped EXCEPT !.renderer = Some(Renderer_render(@.value, stepped.physics))]
        ELSE stepped

\* What a click can hit: get_ray_from_screen gives the ray of the orbiting
\* camera through the clicked pixel, so cast_ray returns nothing or the slot
\* index of one of the colliders the query pipeline knows.
ClickHits(physics) ==
    {None} \cup { Some(physics.query_pipeline[i].handle.index) :
                     i \in 1..Len(physics.query_pipeline) }

\* Simulation::handle_click, when the ray cast gave hit
handle_click(sim, hit) ==
    IF sim.renderer.some /\ hit.some
    THEN [sim EXCEPT !.physics = apply_impulse(@, hit.value, 0, 5 * Scale, 0)]
    ELSE sim

----------------------------------------------------------------------------
(* The soft-body specification: one SoftBody, built by create_cloth and     *)
(* advanced by step.  The caller's world (time step, gravity, colliders,    *)
(* the spacing and offset it builds cloths with) is chosen once.            *)

Gravity == Vec(0, -9810, 0)

\* Collider worlds tried: none; the floor slab spawn_floor makes (cuboid
\* 100 x 0.1 x 100 at the origin); a box (cuboid 0.5^3) hanging 0.05 above y = 0;
\* a box across y = 0 that holds grid point (0.5, 0.5) and ends 0.05 short of
\* grid point (0.5, 1.0).
FloorSlab == [c |-> Zero3, h |-> Vec(100 * Scale, Scale \div 10, 100 * Scale)]
LowBox == [c |-> Vec(0, (Scale * 55) \div 100, 0),
           h |-> Vec(Scale \div 2, Scale \div 2, Scale \div 2)]

SideBox == [c |-> Vec((Scale * 7) \div 10, 0, (Scale * 625) \div 1000),
            h |-> Vec(Scale \div 4, Scale \div 2, (Scale * 325) \div 1000)]

High == Vec(0, 2 * Scale, 0)
Low == Vec(0, Scale \div 50, 0)
Mid == Vec(0, Scale \div 5, 0)

Env(dt, gravity, colls, spacing, offset) ==
    [dt |-> dt, gravity |-> gravity, colls |-> colls, spacing |-> spacing, offset |-> offset]

Envs == { Env(17, Gravity, <<>>, Scale, High),
          Env(100, Zero3, <<>>, Scale, High),
          Env(100, Gravity, <<>>, Scale \div 2, Low),
          Env(100, Gravity, <<FloorSlab>>, Scale \div 2, Low),
          Env(100, Gravity, <<LowBox>>, Scale \div 2, Low),
          Env(100, Gravity, <<SideBox>>, Scale \div 2, Mid) }

NoOp == [op |-> "new", width |-> 0, height |-> 0, spacing |-> 0, offset |-> Zero3,
         n0 |-> 0, s0 |-> 0, relaxed |-> <<>>, contact |-> FALSE]

SoftInit ==
    /\ particles = SoftBody_new.particles
    /\ springs = SoftBody_new.springs
    /\ prev = <<>>
    /\ spawnPos = <<>>
    /\ last = NoOp
    /\ nsteps = 0
    /\ ncloths = 0

Body == [particles |-> particles, springs |-> springs]

\* body.create_cloth(width, height, spacing, offset)
CreateCloth ==
    /\ ncloths < MaxCloths
    /\ \E width \in 1..MaxParticles, height \in 1..MaxParticles :
          /\ Len(particles) + width * height <= MaxParticles
          /\ LET b == create_cloth(Body, width, height, env.spacing, env.offset)
             IN  /\ particles' = b.particles
                 /\ springs' = b.springs
                 /\ prev' = particles
                 /\ spawnPos' = [i \in DOMAIN b.particles |->
                                   IF i <= Len(particles) THEN spawnPos[i]
                                   ELSE b.particles[i].position]
                 /\ last' = [NoOp EXCEPT !.op = "create_cloth", !.width = width,
                                         !.height = height, !.spacing = env.spacing,
                                         !.offset = env.offset, !.n0 = Len(particles),
                                         !.s0 = Len(springs)]
    /\ ncloths' = ncloths + 1
    /\ UNCHANGED <<nsteps, env, worldVars, simVars>>

\* The mass given to Particle::new directly: none (create_cloth gives one unit).
Masses == {0}

\* The particles pushed directly, recognised by their mass
Pushed == {i \in 1..Len(particles) : particles[i].mass # Scale}

\* body.particles.push(Particle::new(x, y, z, mass)) at the cloth offset, on a
\* body that has no cloth yet
PushParticle ==
    /\ Len(particles) < MaxParticles
    /\ Cardinality(Pushed) < MaxPushed
    /\ nsteps = 0 /\ ncloths = 0
    /\ \E mass \in Masses :
          LET p == Particle_new(env.offset[1], env.offset[2], env.offset[3], mass)
          IN  /\ particles' = Append(particles, p)
              /\ spawnPos' = Append(spawnPos, p.position)
    /\ prev' = particles
    /\ last' = [NoOp EXCEPT !.op = "push", !.n0 = Len(particles), !.s0 = Len(springs)]
    /\ UNCHANGED <<springs, nsteps, ncloths, env, worldVars, simVars>>

\* Whether integrating the relaxed particles ps touches the floor or a collider
Touches(ps, dt, colls) ==
    \E i \in 1..Len(ps) :
        /\ ~ps[i].pinned
        /\ \/ Tentative(ps[i], dt)[2] < 0
           \/ LET q == project_point(colls, Tentative(ps[i], dt))
              IN  q.found /\ (q.is_inside
                                \/ Norm(VSub(Tentative(ps[i], dt), q.point)) < particle_radius)

\* One body.step(dt, &gravity, &query_pipeline, &colliders, &rigid_bodies) call,
\* with what the history variables keep of it
StepBody ==
    LET b == SoftBody_step(Body, env.dt, env.gravity, env.colls)
        relaxed == Relaxed(Body, env.dt, env.gravity)
    IN  /\ particles' = b.particles
        /\ springs' = b.springs
        /\ prev' = particles
        /\ last' = [NoOp EXCEPT !.op = "step", !.n0 = Len(particles),
                                !.s0 = Len(springs), !.relaxed = relaxed,
                                !.contact = last.contact
                                              \/ Touches(relaxed, env.dt, env.colls)]
        /\ nsteps' = nsteps + 1
        /\ UNCHANGED <<spawnPos, ncloths, env, worldVars, simVars>>

StepSoftBody ==
    /\ nsteps < MaxSteps
    /\ Len(particles) > 0
    /\ StepBody

WorldIdle ==
    /\ rigid_body_set = PhysicsWorld_new.rigid_body_set
    /\ collider_set = PhysicsWorld_new.collider_set
    /\ object_types = PhysicsWorld_new.object_types
    /\ fluid = PhysicsWorld_new.fluid
    /\ query_pipeline = PhysicsWorld_new.query_pipeline
    /\ soft_bodies = PhysicsWorld_new.soft_bodies

SimIdle ==
    /\ CMD_QUEUE = <<>>
    /\ renderer = None
    /\ console = <<>>
    /\ sockets = 0
    /\ spawnedAt = <<>>
    /\ ncalls = 0

ClothInit == SoftInit /\ env \in Envs /\ WorldIdle /\ SimIdle /\ trace = NoCall
ClothNext == CreateCloth \/ PushParticle \/ StepSoftBody
ClothSpec == ClothInit /\ [][ClothNext]_vars

----------------------------------------------------------------------------
(* The world specification: one PhysicsWorld and any sequence of calls of   *)
(* its methods, MaxCalls of them at most.                                   *)

World ==
    [rigid_body_set |-> rigid_body_set, collider_set |-> collider_set,
     object_types |-> object_types, fluid |-> fluid,
     query_pipeline |-> query_pipeline, soft_bodies |-> soft_bodies,
     phases |-> PhysicsWorld_new.phases]

SetWorld(w) ==
    /\ rigid_body_set' = w.rigid_body_set
    /\ collider_set' = w.collider_set
    /\ object_types' = w.object_types
    /\ fluid' = w.fluid
    /\ query_pipeline' = w.query_pipeline
    /\ soft_bodies' = w.soft_bodies

\* spawnedAt once the bodies w1 has more than w0 are noted
Spawned(w0, w1) ==
    spawnedAt \o
    [i \in 1..(Len(w1.rigid_body_set) - Len(w0.rigid_body_set)) |->
        LET b == w1.rigid_body_set[Len(w0.rigid_body_set) + i]
        IN  [shape |-> w1.collider_set[b.colliders[1].index + 1].shape.kind,
             body_type |-> b.body_type, at |-> b.translation]]

SoftIdle == SoftInit /\ env = Env(17, Gravity, <<>>, Scale, High)

SpawnPoints == { Zero3, Vec(0, 3 * Scale, 0) }
SpherePoints == { Vec(0, 3 * Scale, 0) }
LiquidPoints == { Vec(0, Scale, 0) }
RayOrigins == { Vec(0, 5 * Scale, 0) }
Down == Vec(0, -1, 0)
Impulses == { Vec(0, 5 * Scale, 0) }

\* A call of a PhysicsWorld method: the world becomes w
WorldCall(op, handle_idx, result, w) ==
    /\ ncalls < MaxCalls
    /\ SetWorld(w)
    /\ spawnedAt' = Spawned(World, w)
    /\ trace' = [op |-> op, handle_idx |-> handle_idx, result |-> result,
                 phases |-> w.phases]
    /\ ncalls' = ncalls + 1
    /\ UNCHANGED <<sbVars, CMD_QUEUE, renderer, console, sockets>>

FluidHasRoom == Len(fluid.positions) < MaxFluidBlocks * LiquidN * LiquidN * LiquidN

SpawnBox ==
    \E q \in SpawnPoints : WorldCall("spawn_box", 0, None, spawn_box(World, q[1], q[2], q[3]))

SpawnSphere ==
    \E q \in SpherePoints :
        WorldCall("spawn_sphere", 0, None, spawn_sphere(World, q[1], q[2], q[3]))

SpawnFloor == WorldCall("spawn_floor", 0, None, spawn_floor(World))

SpawnLiquid ==
    /\ FluidHasRoom
    /\ \E q \in LiquidPoints :
          WorldCall("spawn_liquid", 0, None, spawn_liquid(World, q[1], q[2], q[3]))

\* width and height handed to PhysicsWorld::spawn_cloth
ClothSizes == { <<3, 2>> }

SpawnCloth ==
    /\ Len(soft_bodies) < MaxCloths
    /\ \E q \in LiquidPoints, size \in ClothSizes :
          WorldCall("spawn_cloth", 0, None,
                    spawn_cloth(World, q[1], q[2], q[3], size[1], size[2]))

SpawnAvalanche ==
    \E q \in LiquidPoints :
        WorldCall("spawn_avalanche", 0, None, spawn_avalanche(World, q[1], q[2], q[3]))

SpawnTsunami ==
    /\ FluidHasRoom
    /\ \E q \in LiquidPoints :
          WorldCall("spawn_tsunami", 0, None, spawn_tsunami(World, q[1], q[2], q[3]))

StepWorld == WorldCall("step", 0, None, PhysicsWorld_step(World))

CastRay ==
    \E origin \in RayOrigins :
        WorldCall("cast_ray", 0, cast_ray(World, origin, Down), World)

\* The identifiers tried: the first slot, the last slot, and one past the last
ImpulseTargets ==
    { i \in {0, Len(rigid_body_set) - 1, Len(rigid_body_set)} : i >= 0 }

ApplyImpulse ==
    \E handle_idx \in ImpulseTargets, impulse \in Impulses :
        WorldCall("apply_impulse", handle_idx, None,
                  apply_impulse(World, handle_idx, impulse[1], impulse[2], impulse[3]))

WorldInit ==
    /\ SoftIdle
    /\ WorldIdle
    /\ SimIdle
    /\ trace = NoCall

WorldNext ==
    \/ SpawnBox \/ SpawnSphere \/ SpawnFloor \/ SpawnLiquid
    \/ SpawnCloth \/ SpawnAvalanche \/ SpawnTsunami
    \/ StepWorld \/ CastRay \/ ApplyImpulse

WorldSpec == WorldInit /\ [][WorldNext]_vars

----------------------------------------------------------------------------
(* The simulation specification: one Simulation; sockets are connected,     *)
(* texts arrive, step runs, the canvas is clicked.  JavaScript runs each    *)
(* callback and each call to completion, so each is one action.             *)

Sim == [physics |-> World, renderer |-> renderer, queue |-> CMD_QUEUE, console |-> console]

SetSim(sim) ==
    /\ SetWorld(sim.physics)
    /\ renderer' = sim.renderer
    /\ CMD_QUEUE' = sim.queue
    /\ console' = sim.console

\* What a simulation holds, in numbers
Counts(sim) ==
    [bodies |-> Len(sim.physics.rigid_body_set),
     colliders |-> Len(sim.physics.collider_set),
     registry |-> Cardinality(DOMAIN sim.physics.object_types),
     particles |-> Len(sim.physics.fluid.positions),
     cloths |-> Len(sim.physics.soft_bodies),
     logs |-> Len(sim.console)]

\* History: Counts after each of the texts of queue is processed, one at a time
RECURSIVE AfterEach(_, _, _)
AfterEach(sim, queue, acc) ==
    IF queue = <<>> THEN acc
    ELSE LET next == ProcessCommand(sim, Head(queue))
             acc1 == Append(acc, Counts(next))
         IN  IF Len(acc1) = 0 THEN acc1 ELSE AfterEach(next, Tail(queue), acc1)

\* A call on the simulation, which becomes sim; trace keeps op and more
SimCall(sim, more) ==
    /\ ncalls < MaxSimCalls
    /\ SetSim(sim)
    /\ spawnedAt' = Spawned(World, sim.physics)
    /\ trace' = more
    /\ ncalls' = ncalls + 1
    /\ UNCHANGED <<sbVars, sockets>>

\* connect_orchestrator: a socket whose onmessage callback is set
ConnectOrchestrator ==
    /\ ncalls < MaxSimCalls
    /\ sockets < MaxSockets
    /\ sockets' = sockets + 1
    /\ trace' = [NoCall EXCEPT !.op = "connect_orchestrator"]
    /\ ncalls' = ncalls + 1
    /\ UNCHANGED <<sbVars, worldVars, CMD_QUEUE, renderer, console, spawnedAt>>

\* init_graphics, when Renderer::new succeeds
InitGraphics ==
    /\ ncalls < MaxSimCalls
    /\ ~renderer.some
    /\ renderer' = Some(Renderer_new)
    /\ trace' = [NoCall EXCEPT !.op = "init_graphics"]
    /\ ncalls' = ncalls + 1
    /\ UNCHANGED <<sbVars, worldVars, CMD_QUEUE, console, sockets, spawnedAt>>

\* What a MessageEvent carries: a string, or something else (a Blob, an ArrayBuffer)
Messages == { [is_string |-> TRUE, txt |-> t] : t \in Texts }
            \cup { [is_string |-> FALSE, txt |-> ""] }

\* A callback that puts the text ahead of those waiting
onmessage_PushFront(sim, e) ==
    IF e.is_string THEN [sim EXCEPT !.queue = <<e.txt>> \o @] ELSE sim

\* The onmessage callback
onmessage(sim, e) ==
    IF e.is_string THEN [sim EXCEPT !.queue = Append(@, e.txt)] ELSE sim

OnMessage ==
    /\ sockets > 0
    /\ \E e \in Messages :
          SimCall(onmessage(Sim, e), [NoCall EXCEPT !.op = "onmessage"])

\* Simulation::step, with what the history keeps of it: the queue it found, the
\* counts before, after each text, and when the physics step begins
SimStep ==
    LET drained == Drain(Sim)
    IN  SimCall(Simulation_step(Sim),
                [op |-> "step", handle_idx |-> 0, result |-> None,
                 drained |-> CMD_QUEUE,
                 before |-> Counts(Sim),
                 after_each |-> AfterEach(Sim, CMD_QUEUE, <<>>),
                 at_physics |-> [counts |-> Counts(drained), queue |-> drained.queue]])

\* Simulation::spawn_floor
SimSpawnFloor ==
    SimCall([Sim EXCEPT !.physics = spawn_floor(@)], [NoCall EXCEPT !.op = "spawn_floor"])

\* Simulation::handle_click
HandleClick ==
    \E hit \in ClickHits(World) :
        SimCall(handle_click(Sim, hit),
                [NoCall EXCEPT !.op = "handle_click", !.result = hit])

SimInit ==
    /\ SoftIdle
    /\ rigid_body_set = Simulation_new.physics.rigid_body_set
    /\ collider_set = Simulation_new.physics.collider_set
    /\ object_types = Simulation_new.physics.object_types
    /\ fluid = Simulation_new.physics.fluid
    /\ query_pipeline = Simulation_new.physics.query_pipeline
    /\ soft_bodies = Simulation_new.physics.soft_bodies
    /\ renderer = Simulation_new.renderer
    /\ CMD_QUEUE = Simulation_new.queue
    /\ console = Simulation_new.console
    /\ sockets = 0
    /\ spawnedAt = <<>>
    /\ trace = NoCall
    /\ ncalls = 0

SimNext ==
    \/ ConnectOrchestrator \/ InitGraphics \/ OnMessage
    \/ SimStep \/ SimSpawnFloor \/ HandleClick

SimSpec == SimInit /\ [][SimNext]_vars

----------------------------------------------------------------------------
(* The two-particle specification: two particles made by Particle::new,     *)
(* one spring between them, no collider; none, the first or the second      *)
(* particle pinned the way create_cloth pins.                               *)

Pin(p) == [p EXCEPT !.pinned = TRUE, !.inv_mass = 0]

\* Where the second particle starts; the first starts at High = (0, 2, 0).
SecondAt == { Vec(Scale, 2 * Scale, 0),                  \* at rest length
              Vec((3 * Scale) \div 2, 2 * Scale, 0),     \* stretched
              Vec((3 * Scale) \div 5, 2 * Scale, 0),     \* compressed
              Vec(0, 3 * Scale + 7, 0),                  \* stretched, vertical
              Vec(300, 2 * Scale + 400, 1200),           \* stretched, oblique
              Vec(0, 2 * Scale, 0) }                     \* on the first particle

SpringEnvs == { Env(dt, gravity, <<>>, Scale, High) : dt \in {17, 100},
                                                     gravity \in {Gravity, Zero3} }

SpringInit ==
    /\ env \in SpringEnvs
    /\ \E q \in SecondAt, pin \in {"none", "first", "second"} :
          LET a == Particle_new(High[1], High[2], High[3], Scale)
              b == Particle_new(q[1], q[2], q[3], Scale)
          IN  /\ particles = << IF pin = "first" THEN Pin(a) ELSE a,
                                IF pin = "second" THEN Pin(b) ELSE b >>
              /\ spawnPos = <<High, q>>
    /\ springs = add_spring(<<>>, 0, 1, env.spacing, ClothStiffness * Scale,
                            Quot(ClothDampingTenths * Scale, 10))
    /\ prev = <<>>
    /\ last = NoOp
    /\ nsteps = 0
    /\ ncloths = 0
    /\ WorldIdle /\ SimIdle /\ trace = NoCall

StepSpring ==
    /\ nsteps < MaxSpringSteps
    /\ StepBody

SpringNext == StepSpring
SpringSpec == SpringInit /\ [][SpringNext]_vars

----------------------------------------------------------------------------
(* ChainSpec: three particles and two springs in a SoftBody, the first two  *)
(* particles on the same point, stepped.                                    *)

\* Where the third particle starts; the first two start at High = (0, 2, 0).
ThirdAt == { Vec(Scale, 2 * Scale, 0),                  \* at rest length
             Vec((3 * Scale) \div 2, 2 * Scale, 0),     \* stretched
             Vec((3 * Scale) \div 5, 2 * Scale, 0),     \* compressed
             Vec(300, 2 * Scale + 400, 1200),           \* stretched, oblique
             Vec(0, 2 * Scale, 0) }                     \* on the first two

ChainInit ==
    /\ env \in SpringEnvs
    /\ \E q \in ThirdAt, pin \in {"none", "first", "third"} :
          LET a == Particle_new(High[1], High[2], High[3], Scale)
              c == Particle_new(q[1], q[2], q[3], Scale)
          IN  /\ particles = << IF pin = "first" THEN Pin(a) ELSE a,
                                a,
                                IF pin = "third" THEN Pin(c) ELSE c >>
              /\ spawnPos = <<High, High, q>>
    /\ springs = add_spring(add_spring(<<>>, 0, 1, env.spacing, ClothStiffness * Scale,
                                       Quot(ClothDampingTenths * Scale, 10)),
                            1, 2, env.spacing, ClothStiffness * Scale,
                            Quot(ClothDampingTenths * Scale, 10))
    /\ prev = <<>>
    /\ last = NoOp
    /\ nsteps = 0
    /\ ncloths = 0
    /\ WorldIdle /\ SimIdle /\ trace = NoCall

StepChain ==
    /\ nsteps < MaxChainSteps
    /\ StepBody

ChainNext == StepChain
ChainSpec == ChainInit /\ [][ChainNext]_vars

\* | distance between the two particles - rest length | of the one spring
SpringError(ps) ==
    Abs(Norm(VSub(ps[springs[1].p2 + 1].position, ps[springs[1].p1 + 1].position))
          - springs[1].rest_length)

\* C4 as stated: with no floor or collider contact, a step never increases the
\* difference between the inter-particle distance and the rest length, both
\* particles free or one pinned.
C4_ErrorNeverGrows ==
    (last.op = "step" /\ ~last.contact) => SpringError(particles) <= SpringError(prev)

\* C4 amended: the same, when both particles are free (they start at rest and
\* fall together) or when gravity is zero; with one particle pinned and gravity
\* acting the free particle is pulled away and the difference can grow.
C4_ErrorNeverGrowsUnloaded ==
    (/\ last.op = "step" /\ ~last.contact
     /\ (env.gravity = Zero3 \/ \A i \in 1..2 : ~particles[i].pinned))
    => SpringError(particles) <= SpringError(prev)

\* C4's case: steps without contact shrank the difference, for two free
\* particles under gravity.
C4_Witness ==
    /\ nsteps >= 2 /\ ~last.contact /\ env.gravity # Zero3
    /\ \A i \in 1..2 : ~particles[i].pinned
    /\ SpringError(particles) < SpringError(prev)
    /\ particles[1].position[2] < High[2]

----------------------------------------------------------------------------
(* Claims about the soft body, checked under ClothSpec *)

\* The particles the last create_cloth added, as indices into particles (1-based)
AddedByLast == (last.n0 + 1)..Len(particles)

\* Where create_cloth puts grid cell (x, z)
GridPos(x, z) == VAdd(last.offset, Vec(x * last.spacing, 0, z * last.spacing))

\* C1: one create_cloth(W, H, d, offset) adds exactly W*H particles and exactly
\* (W-1)*H + W*(H-1) springs, and of the particles it added exactly those at grid
\* cells (0, 0) and (W-1, 0) are pinned.
C1_ClothCounts ==
    last.op = "create_cloth" =>
        /\ Len(particles) = last.n0 + last.width * last.height
        /\ Len(springs) = last.s0 + (last.width - 1) * last.height
                                  + last.width * (last.height - 1)
        /\ \A i \in AddedByLast :
              particles[i].pinned <=>
                  particles[i].position \in {GridPos(0, 0), GridPos(last.width - 1, 0)}
        /\ Cardinality({i \in AddedByLast : particles[i].pinned})
              = Cardinality({0, last.width - 1})

\* C1's case: the last call built a cloth of at least 2 x 2, with pinned and free
\* particles.
C1_Witness ==
    /\ last.op = "create_cloth" /\ last.width >= 2 /\ last.height >= 2
    /\ \E i \in AddedByLast : ~particles[i].pinned
    /\ \E i \in AddedByLast : particles[i].pinned

\* C2: whatever number of steps ran, every pinned particle is where it was created.
C2_PinnedFixed ==
    \A i \in 1..Len(particles) :
        particles[i].pinned => particles[i].position = spawnPos[i]

\* C2's case: two steps under gravity moved a free particle that a spring joins
\* to a pinned one.
C2_Witness ==
    /\ nsteps >= 2 /\ env.gravity # Zero3
    /\ \E k \in 1..Len(springs) :
          LET a == particles[springs[k].p1 + 1]
              b == particles[springs[k].p2 + 1]
          IN  a.pinned /\ ~b.pinned /\ b.position # spawnPos[springs[k].p2 + 1]

\* The particles whose computed next position, in the last step, had Y < 0
BelowFloor ==
    {i \in 1..Len(particles) :
        /\ last.op = "step"
        /\ ~last.relaxed[i].pinned
        /\ Tentative(last.relaxed[i], env.dt)[2] < 0}

\* What the closest-point query of the last step answered for particle i
QueryOf(i) ==
    project_point(env.colls, FloorClamp(Tentative(last.relaxed[i], env.dt),
                                        last.relaxed[i].velocity).pos)

QueryDist(i) ==
    Norm(VSub(FloorClamp(Tentative(last.relaxed[i], env.dt),
                         last.relaxed[i].velocity).pos, QueryOf(i).point))

\* C3 as stated: a particle whose computed next position had Y < 0 ends the step
\* with Y = 0 and vertical velocity 0, whatever the closest-point query answered.
C3_FloorClampAlways ==
    \A i \in BelowFloor :
        particles[i].position[2] = 0 /\ particles[i].velocity[2] = 0

\* C3 amended: such a particle ends the step with vertical velocity 0; with Y = 0
\* when the query found no collider or a surface point at distance >= 0.1 and not
\* inside; and with the Y of the reported point when the query reported inside.
C3_FloorClamp ==
    \A i \in BelowFloor :
        /\ particles[i].velocity[2] = 0
        /\ (~QueryOf(i).found
              \/ (~QueryOf(i).is_inside /\ QueryDist(i) >= particle_radius))
           => particles[i].position[2] = 0
        /\ (QueryOf(i).found /\ QueryOf(i).is_inside)
           => particles[i].position[2] = QueryOf(i).point[2]

\* C3's case: a particle that was above the floor was clamped to it in a step whose
\* query found a collider.
C3_Witness ==
    \E i \in BelowFloor : QueryOf(i).found /\ prev[i].position[2] > 0

----------------------------------------------------------------------------
(* Claims about the world, checked under WorldSpec *)

\* The i-th record of 8 floats of a render buffer, i from 0
RecordAt(data, i) == SubSeq(data, 8 * i + 1, 8 * i + 8)

\* C5: whatever spawn_box, spawn_sphere, spawn_floor, spawn_liquid and step
\* calls were made, get_render_data returns exactly (N + M) * 8 floats for N
\* rigid bodies (the floor included) and M fluid particles; the first N records
\* are the rigid bodies in slot order (position, rotation, type tag), the
\* following M records the fluid particles in order (position, identity
\* rotation, tag 2).
C5_RenderBufferShape ==
    LET data == get_render_data(World)
        N == Len(rigid_body_set)
        M == Len(fluid.positions)
    IN  /\ Len(data) = (N + M) * 8
        /\ \A i \in 1..N :
              LET r == RecordAt(data, i - 1)
                  b == rigid_body_set[i]
              IN  /\ <<r[1], r[2], r[3]>> = b.translation
                  /\ <<r[4], r[5], r[6], r[7]>> = b.rotation
                  /\ r[8] = IF spawnedAt[i].shape = "ball" THEN TypeSphere ELSE TypeBox
        /\ \A m \in 1..M :
              LET r == RecordAt(data, N + m - 1)
              IN  /\ <<r[1], r[2], r[3]>> = fluid.positions[m]
                  /\ <<r[4], r[5], r[6], r[7]>> = <<0, 0, 0, Scale>>
                  /\ r[8] = TypeLiquid

\* C5's case: a box, a sphere and a block of fluid in the world, and a step taken
C5_Witness ==
    /\ \E i, j \in 1..Len(rigid_body_set) :
          spawnedAt[i].shape = "cuboid" /\ spawnedAt[j].shape = "ball"
    /\ Len(fluid.positions) = LiquidN * LiquidN * LiquidN
    /\ trace.op = "step"

Handles == { rigid_body_set[i].handle : i \in 1..Len(rigid_body_set) }

\* C7: after any calls, the keys of the object registry are exactly the
\* rigid-body handles of the world, one entry each, and a call never removes an
\* entry or changes its type tag.
C7_RegistryMatchesBodies ==
    /\ [](/\ DOMAIN object_types = Handles
          /\ Cardinality(Handles) = Len(rigid_body_set))
    /\ [][\A h \in DOMAIN object_types :
              h \in DOMAIN object_types' /\ object_types'[h] = object_types[h]]_vars

\* C7's case: a box and a sphere registered, then stepped and pushed
C7_Witness ==
    /\ \E h, k \in DOMAIN object_types :
          object_types[h] = TypeBox /\ object_types[k] = TypeSphere
    /\ \E i \in 1..Len(rigid_body_set) : rigid_body_set[i].linvel[2] > 0
    /\ query_pipeline # <<>>

\* C8: where the world holds a box spawned at the origin (and nothing else to
\* be hit first), cast_ray from above the box straight down returns Some(id),
\* id the slot index of the box's rigid-body handle.
C8_RayReturnsSpawnedBox ==
    \A i \in 1..Len(rigid_body_set) :
        ( /\ Len(rigid_body_set) = 1
          /\ spawnedAt[i] = [shape |-> "cuboid", body_type |-> "dynamic", at |-> Zero3] )
        => cast_ray(World, VAdd(rigid_body_set[i].translation, Vec(0, 5 * Scale, 0)), Down)
             = Some(rigid_body_set[i].handle.index)

\* C9: apply_impulse with an identifier that is the slot index of no rigid body
\* changes nothing: no body's velocity or position, not the registry, not the
\* fluid.
C9_ImpulseMissIsNoOp ==
    [][( /\ trace'.op = "apply_impulse"
         /\ \A i \in 1..Len(rigid_body_set) :
               rigid_body_set[i].handle.index # trace'.handle_idx )
       => UNCHANGED <<rigid_body_set, collider_set, object_types, fluid>>]_vars

\* C9's case: the last call was apply_impulse, no body has the index it was
\* given, and the world holds a moving dynamic body and fluid
C9_Witness ==
    /\ trace.op = "apply_impulse"
    /\ \A i \in 1..Len(rigid_body_set) : rigid_body_set[i].handle.index # trace.handle_idx
    /\ \E i \in 1..Len(rigid_body_set) :
          rigid_body_set[i].body_type = "dynamic" /\ rigid_body_set[i].linvel # Zero3
    /\ Len(fluid.positions) > 0

----------------------------------------------------------------------------
(* Claims about the simulation, checked under SimSpec *)

\* What the command protocol says a text does: how many rigid bodies, fluid
\* particles, cloths and log lines it adds
Adds(nb, np, nc, nl) == [bodies |-> nb, particles |-> np, cloths |-> nc, logs |-> nl]

Known == {"spawn_box", "spawn_sphere", "spawn_liquid", "spawn_cloth",
          "spawn_avalanche", "spawn_tsunami"}

\* The command name a text carries, "" when it is not a command at all
NameOf(txt) == IF from_str(txt).ok THEN from_str(txt).value.cmd ELSE ""

Effect(txt) ==
    LET name == NameOf(txt)
        block == LiquidN * LiquidN * LiquidN
    IN  CASE name \in {"spawn_box", "spawn_sphere"} -> Adds(1, 0, 0, 0)
          [] name \in {"spawn_liquid", "spawn_tsunami"} -> Adds(0, block, 0, 0)
          [] name = "spawn_cloth" -> Adds(0, 0, 1, 0)
          [] name = "spawn_avalanche" -> Adds(PresetBodies, 0, 0, 0)
          [] name = "" -> Adds(0, 0, 0, 0)
          [] OTHER -> Adds(0, 0, 0, 1)

\* Counts c with the effect e added
Plus(c, e) ==
    [bodies |-> c.bodies + e.bodies, colliders |-> c.colliders + e.bodies,
     registry |-> c.registry + e.bodies, particles |-> c.particles + e.particles,
     cloths |-> c.cloths + e.cloths, logs |-> c.logs + e.logs]

\* Counts before the k-th text of the last step's drain was processed
BeforeText(k) == IF k = 1 THEN trace.before ELSE trace.after_each[k - 1]

\* C6: in every Simulation.step, each text that was in the queue when the step
\* began has been applied, whole and in order, before the physics step begins,
\* and the queue is empty when the physics step begins (and after the step).
C6_DrainedBeforePhysics ==
    trace.op = "step" =>
        /\ trace.at_physics.queue = <<>>
        /\ CMD_QUEUE = <<>>
        /\ Len(trace.after_each) = Len(trace.drained)
        /\ \A k \in 1..Len(trace.drained) :
              trace.after_each[k] = Plus(BeforeText(k), Effect(trace.drained[k]))
        /\ trace.at_physics.counts
              = IF trace.drained = <<>> THEN trace.before
                ELSE trace.after_each[Len(trace.drained)]

\* C6's case: a step drained at least three texts, among them one that spawns
\* several bodies and one that spawns fluid
C6_Witness ==
    /\ trace.op = "step"
    /\ Len(trace.drained) >= 3
    /\ \E k \in 1..Len(trace.drained) : NameOf(trace.drained[k]) = "spawn_avalanche"
    /\ \E k \in 1..Len(trace.drained) : NameOf(trace.drained[k]) = "spawn_liquid"

\* The bodies the last step's drain spawned, as indices into rigid_body_set
SpawnedInDrain == (trace.before.bodies + 1)..Len(rigid_body_set)

\* C10: a queued command with a name that is none of the six known ones is
\* logged and otherwise ignored: it adds no rigid body, no fluid particle, no
\* registry entry (and no cloth), the texts queued after it in the same drain
\* are still processed, and the physics step still runs.
C10_UnknownCommandIgnored ==
    trace.op = "step" =>
        \A k \in 1..Len(trace.drained) :
            (from_str(trace.drained[k]).ok /\ NameOf(trace.drained[k]) \notin Known)
            => /\ trace.after_each[k] = [BeforeText(k) EXCEPT !.logs = @ + 1]
               /\ console[trace.after_each[k].logs]
                     = <<"Unknown command: ", NameOf(trace.drained[k])>>
               /\ \A j \in (k + 1)..Len(trace.drained) :
                     trace.after_each[j] = Plus(BeforeText(j), Effect(trace.drained[j]))
               /\ Len(trace.after_each) = Len(trace.drained)
               /\ Len(query_pipeline) = Len(collider_set)
               /\ \A i \in SpawnedInDrain :
                     rigid_body_set[i].linvel = VMulDiv(WorldGravity, 1, WorldDtDen)

\* C10's case: a step drained an unknown command followed by a spawn_box
C10_Witness ==
    /\ trace.op = "step"
    /\ \E k \in 1..(Len(trace.drained) - 1) :
          /\ NameOf(trace.drained[k]) = "explode"
          /\ NameOf(trace.drained[k + 1]) = "spawn_box"
    /\ Len(console) > 0

\* C11: a queued text that is not a well-formed command record is skipped and
\* logged: it changes nothing in the world, it adds one line to the log, the
\* other texts of the same drain are still applied, and the physics step of
\* that invocation still runs.
C11_MalformedSkippedAndLogged ==
    trace.op = "step" =>
        \A k \in 1..Len(trace.drained) :
            ~from_str(trace.drained[k]).ok
            => /\ trace.after_each[k] = [BeforeText(k) EXCEPT !.logs = @ + 1]
               /\ \A j \in 1..Len(trace.drained) :
                     from_str(trace.drained[j]).ok
                     => trace.after_each[j] = Plus(BeforeText(j), Effect(trace.drained[j]))
               /\ Len(trace.after_each) = Len(trace.drained)
               /\ Len(query_pipeline) = Len(collider_set)

\* Whether spring s joins two different particles whose 0-based indices lie in
\* lo..hi-1 and has a positive rest length
SpringWithin(s, lo, hi) ==
    /\ s.p1 # s.p2
    /\ s.p1 >= lo /\ s.p1 < hi
    /\ s.p2 >= lo /\ s.p2 < hi
    /\ s.rest_length > 0

\* C12: after any sequence of create_cloth calls, the particles a call added
\* occupy the contiguous index range [n, n + W*H) where n was the particle count
\* before the call; every spring joins two different particles, both indices
\* below the particle count, with a positive rest length; and both endpoints
\* of a spring lie inside the index range of the one call that created it
\* (no later call or step changes a spring).
C12_SpringsWellFormed ==
    /\ [](\A k \in 1..Len(springs) : SpringWithin(springs[k], 0, Len(particles)))
    /\ [][/\ Len(springs') >= Len(springs)
          /\ SubSeq(springs', 1, Len(springs)) = springs
          /\ Len(particles') >= Len(particles)
          /\ last'.op = "create_cloth" =>
                /\ last'.n0 = Len(particles)
                /\ Len(particles') = Len(particles) + last'.width * last'.height
                /\ \A i \in 1..Len(particles) : particles'[i] = particles[i]
                /\ \A k \in (Len(springs) + 1)..Len(springs') :
                      SpringWithin(springs'[k], Len(particles), Len(particles'))
          /\ last'.op = "step" => springs' = springs]_vars

\* C12's case: a second create_cloth call added springs to a body that already
\* had particles and springs of a first call.
C12_Witness ==
    /\ last.op = "create_cloth" /\ ncloths = 2
    /\ last.n0 > 0 /\ last.s0 > 0
    /\ Len(springs) > last.s0

\* C13: every particle made by Particle::new with a mass >= 0 or by
\* create_cloth has, in every state reached by create_cloth and step calls,
\* inv_mass = 0 exactly when it is pinned or its mass is 0.
C13_InvMassZeroIffFixed ==
    \A i \in 1..Len(particles) :
        particles[i].mass >= 0
        => (particles[i].inv_mass = 0 <=> (particles[i].pinned \/ particles[i].mass = 0))

\* C13's case: after a step the body holds a pinned cloth corner of unit mass, a
\* free cloth particle and a free particle of mass 0.
C13_Witness ==
    /\ nsteps >= 1 /\ ncloths >= 1
    /\ \E i \in 1..Len(particles) : particles[i].pinned /\ particles[i].mass > 0
    /\ \E i \in 1..Len(particles) : ~particles[i].pinned /\ particles[i].mass = Scale
    /\ \E i \in 1..Len(particles) : ~particles[i].pinned /\ particles[i].mass = 0

----------------------------------------------------------------------------
(* Claims about the world step *)

----------------------------------------------------------------------------
(* Claims about SoftBody::step, checked under ClothSpec and SpringSpec *)

\* C15: for the 2 x 2 cloth of spacing 1.0 at offset (0, 2, 0), and any cloth
\* that high above the floor with no collider near, after a step with gravity
\* (0, -9.81, 0) and dt > 0 the pinned corners are exactly where they were
\* spawned and every particle that is not pinned has a Y velocity below zero.
C15_PinnedHoldFreeFall ==
    ( /\ last.op = "step"
      /\ env.gravity = Gravity /\ env.dt > 0
      /\ env.colls = <<>> /\ env.offset = High )
    => \A i \in 1..Len(particles) :
          IF particles[i].pinned
          THEN particles[i].position = spawnPos[i]
          ELSE particles[i].velocity[2] < 0

\* C15's case: one step of the 2 x 2 cloth of spacing 1.0 at (0, 2, 0) under
\* gravity.
C15_Witness ==
    /\ last.op = "step" /\ nsteps = 1
    /\ env = Env(17, Gravity, <<>>, Scale, High)
    /\ Len(particles) = 4 /\ Len(springs) = 4
    /\ particles[1].pinned /\ particles[2].pinned
    /\ ~particles[3].pinned /\ ~particles[4].pinned

----------------------------------------------------------------------------
(* Claims about the collision-query state *)

\* C16: when PhysicsWorld.step returns, the collision-query state cast_ray
\* and the soft bodies' closest-point query use reflects the rigid bodies and
\* colliders as they are after that step's rigid advance, every body spawned
\* before the step included.
C16_QueryStateCurrentAfterStep ==
    trace.op = "step" =>
        /\ Len(query_pipeline) = Len(collider_set)
        /\ query_pipeline = QueryPipeline_update(World)

\* The visits of springs k, k + 1, .. of the body, one after the other in
\* stored order, on the particles ps
RECURSIVE VisitInOrder(_, _)
VisitInOrder(ps, k) ==
    IF k > Len(springs) THEN ps
    ELSE LET next == RelaxSpring(ps, springs[k])
         IN  IF Len(next) = 0 THEN next ELSE VisitInOrder(next, k + 1)

\* The particles before the last step, after its gravity phase
AfterGravity ==
    SubSeq([i \in 1..Len(prev) |-> GravityOn(prev[i], env.gravity, env.dt)], 1, Len(prev))

\* C17: every SoftBody.step applies gravity, then relaxes the springs, then
\* integrates with collision; the relaxation is exactly 2 full passes over all
\* springs in stored order whatever the particle state (also when every spring
\* is at rest length), and the integration starts from the positions and
\* velocities the second pass left.
C17_ThreePhasesTwoPasses ==
    last.op = "step" =>
        LET pass1 == VisitInOrder(AfterGravity, 1)
            pass2 == VisitInOrder(pass1, 1)
        IN  /\ last.relaxed = pass2
            /\ particles = [i \in 1..Len(prev) |->
                               IntegrateParticle(pass2[i], env.dt, env.colls)]

\* C17's case: a step of a body with several springs in which gravity changed
\* the particles, each of the two passes changed them again, and so did the
\* integration.
C17_Witness ==
    /\ last.op = "step" /\ Len(springs) >= 2
    /\ AfterGravity # prev
    /\ VisitInOrder(AfterGravity, 1) # AfterGravity
    /\ last.relaxed # VisitInOrder(AfterGravity, 1)
    /\ particles # last.relaxed

\* The half-share of one visit of spring s on the particles ps:
\* (p2.position - p1.position) * 0.5 * 0.8 * (dist - rest_length) / dist
HalfShare(ps, s) ==
    LET delta == VSub(ps[s.p2 + 1].position, ps[s.p1 + 1].position)
        dist == Norm(delta)
    IN  VMulDiv(delta, (dist - s.rest_length) * HalfTenths * StiffTenths, dist * 100)

\* Whether the endpoints of s are at least 1e-4 apart in ps
Apart(ps, s) ==
    Norm(VSub(ps[s.p2 + 1].position, ps[s.p1 + 1].position)) * EpsDen >= Scale

\* Whether particle p became q by a move of d and the damping of a visit
MovedBy(p, q, d) ==
    q = [p EXCEPT !.position = VAdd(p.position, d),
                  !.velocity = VMulDiv(p.velocity, RelaxDampMilli, 1000)]

\* What C18 says of one visit of spring s that turned particles b into a
VisitAsStated(b, a, s) ==
    Apart(b, s) =>
        LET c == HalfShare(b, s)
            p1 == b[s.p1 + 1]
            p2 == b[s.p2 + 1]
        IN  /\ IF p1.pinned THEN a[s.p1 + 1] = p1 ELSE MovedBy(p1, a[s.p1 + 1], c)
            /\ IF p2.pinned THEN a[s.p2 + 1] = p2
               ELSE MovedBy(p2, a[s.p2 + 1], Vec(-c[1], -c[2], -c[3]))

\* C18: in one relaxation visit of a spring with endpoints at least 1e-4 apart,
\* with c = (p2.position - p1.position) * 0.5 * 0.8 * (dist - rest_length) / dist,
\* a p1 that is not pinned moves by +c and a p2 that is not pinned by -c, the
\* velocity of each moved endpoint is multiplied by 0.999, a pinned endpoint
\* keeps position and velocity, and the free endpoint of a spring with one
\* pinned endpoint gets the same c as with both free.  (The two visits of the
\* one spring in a step: after gravity, and after the first visit.)
C18_VisitMovesByHalfShare ==
    last.op = "step" =>
        LET first == RelaxSpring(AfterGravity, springs[1])
        IN  /\ VisitAsStated(AfterGravity, first, springs[1])
            /\ VisitAsStated(first, last.relaxed, springs[1])

\* C18's case: a step visited a stretched spring with p1 pinned and p2 free, and
\* the visits moved p2 by a non-zero half-share.
C18_Witness ==
    /\ last.op = "step"
    /\ particles[1].pinned /\ ~particles[2].pinned
    /\ Apart(AfterGravity, springs[1])
    /\ HalfShare(AfterGravity, springs[1]) # Zero3
    /\ last.relaxed[2].position # AfterGravity[2].position
    /\ last.relaxed[1] = prev[1]

\* C19: a spring whose endpoints are closer than 1e-4 is skipped for that
\* visit only: the visit changes no position and no velocity and raises no
\* error, the remaining springs of the pass are still processed, and the same
\* spring is evaluated again in the next pass (and so in the next step), where
\* it acts as any spring if its endpoints have come apart.  (Two springs, so
\* the visits of a step are 1, 2, 1, 2.)
C19_DegenerateSkippedOnce ==
    last.op = "step" =>
        LET v1 == RelaxSpring(AfterGravity, springs[1])
            v2 == RelaxSpring(v1, springs[2])
            v3 == RelaxSpring(v2, springs[1])
        IN  /\ ~Apart(AfterGravity, springs[1]) => v1 = AfterGravity
            /\ VisitAsStated(v1, v2, springs[2])
            /\ ~Apart(v2, springs[1]) => v3 = v2
            /\ VisitAsStated(v2, v3, springs[1])
            /\ VisitAsStated(v3, last.relaxed, springs[2])
            /\ \A i \in 1..Len(prev) :
                  /\ i \notin {springs[2].p1 + 1, springs[2].p2 + 1} => v2[i] = v1[i]
                  /\ i \notin {springs[1].p1 + 1, springs[1].p2 + 1} => v3[i] = v2[i]
                  /\ i \notin {springs[2].p1 + 1, springs[2].p2 + 1} => last.relaxed[i] = v3[i]

\* C19's case: in the second step of a body the first spring was degenerate at
\* its first visit, the second spring then moved the shared particle, and the
\* first spring, no longer degenerate, moved particles at its visit in the
\* second pass.
C19_Witness ==
    /\ last.op = "step" /\ nsteps >= 2
    /\ ~Apart(AfterGravity, springs[1])
    /\ LET v2 == RelaxSpring(AfterGravity, springs[2])
       IN  /\ v2 # AfterGravity
           /\ Apart(v2, springs[1])
           /\ RelaxSpring(v2, springs[1]) # v2

\* The floor-clamped tentative position and the velocity of particle i in the
\* last step, before the closest-point query
Clamped(i) == FloorClamp(Tentative(last.relaxed[i], env.dt), last.relaxed[i].velocity)

\* The answer of the closest-point query at that position and its distance
Answer(i) == project_point(env.colls, Clamped(i).pos)
AnswerDist(i) == Norm(VSub(Clamped(i).pos, Answer(i).point))

CaseInside(i) == Answer(i).found /\ Answer(i).is_inside
CaseNear(i) == Answer(i).found /\ ~Answer(i).is_inside /\ AnswerDist(i) < particle_radius
CaseFree(i) == ~Answer(i).found \/ (~Answer(i).is_inside /\ AnswerDist(i) >= particle_radius)

\* C20: in the integration phase each particle that is not pinned, with
\* floor-clamped tentative position t, gets exactly one of: (i) t inside a
\* collider: the committed position is the reported surface point and the
\* velocity is multiplied by 0.5, with no radius push; (ii) not inside and
\* closer than 0.1 to the surface point: the committed position is t pushed by
\* (0.1 - distance) along the direction from the surface point to t and the
\* velocity is multiplied by 0.9; (iii) no collider, or distance >= 0.1: the
\* committed position is t and the velocity gets no collision damping.
C20_ThreeCollisionOutcomes ==
    last.op = "step" =>
        \A i \in 1..Len(particles) :
            ~particles[i].pinned =>
                LET t == Clamped(i).pos
                    v == Clamped(i).vel
                IN  /\ Cardinality({c \in {"i", "ii", "iii"} :
                            \/ c = "i" /\ CaseInside(i)
                            \/ c = "ii" /\ CaseNear(i)
                            \/ c = "iii" /\ CaseFree(i)}) = 1
                    /\ CaseInside(i) =>
                          /\ particles[i].position = Answer(i).point
                          /\ particles[i].velocity = VMulDiv(v, InsideDampTenths, 10)
                    /\ CaseNear(i) =>
                          /\ particles[i].position
                                = VAdd(t, VMulDiv(VSub(t, Answer(i).point),
                                                  particle_radius - AnswerDist(i),
                                                  AnswerDist(i)))
                          /\ particles[i].velocity = VMulDiv(v, NearDampTenths, 10)
                    /\ CaseFree(i) =>
                          /\ particles[i].position = t
                          /\ particles[i].velocity = v

\* C20's case: one step gave one particle outcome (i), another outcome (ii) and
\* a third outcome (iii) with a collider found, each with a velocity to damp.
C20_Witness ==
    /\ last.op = "step"
    /\ \E i, j, k \in 1..Len(particles) :
          /\ ~particles[i].pinned /\ ~particles[j].pinned /\ ~particles[k].pinned
          /\ CaseInside(i) /\ Clamped(i).vel # Zero3
          /\ CaseNear(j) /\ Clamped(j).vel # Zero3
          /\ CaseFree(k) /\ Answer(k).found

----------------------------------------------------------------------------
(* Claims about identifiers shared by cast_ray and apply_impulse *)

\* The slots of collider_set whose collider names body b as its parent
CollidersOf(b) == {k \in 1..Len(collider_set) : collider_set[k].parent = b.handle}

\* The slots of rigid_body_set whose body owns the collider of slot index idx
OwnersOf(idx) ==
    {i \in 1..Len(rigid_body_set) :
        \E k \in CollidersOf(rigid_body_set[i]) : collider_set[k].handle.index = idx}

\* C21: after any sequence of spawns and steps, every rigid body has exactly
\* one collider, and that collider's slot index equals the slot index of its
\* parent body; so the identifier cast_ray returns (the slot index of the
\* collider hit) is matched by apply_impulse to the body that owns the
\* collider hit, and to no other.
C21_ColliderSlotIsBodySlot ==
    /\ \A i \in 1..Len(rigid_body_set) :
          LET b == rigid_body_set[i]
          IN  /\ Len(b.colliders) = 1
              /\ Cardinality(CollidersOf(b)) = 1
              /\ \A k \in CollidersOf(b) :
                    /\ collider_set[k].handle = b.colliders[1]
                    /\ collider_set[k].handle.index = b.handle.index
    /\ \A k \in 1..Len(collider_set) :
          LET idx == collider_set[k].handle.index
              target == FindBody(World, idx)
          IN  /\ target.some
              /\ OwnersOf(idx) = {target.value}
    /\ (trace.op = "cast_ray" /\ trace.result.some) =>
          /\ \E k \in 1..Len(collider_set) :
                collider_set[k].handle.index = trace.result.value
          /\ LET target == FindBody(World, trace.result.value)
             IN  target.some /\ OwnersOf(trace.result.value) = {target.value}

\* C21's case: with several bodies in the world, a ray has hit a collider that
\* is not in the first slot, after a step has moved the bodies.
C21_Witness ==
    /\ trace.op = "cast_ray" /\ trace.result.some
    /\ trace.result.value > 0
    /\ Len(rigid_body_set) >= 2
    /\ \E i \in 1..Len(rigid_body_set) : rigid_body_set[i].linvel # Zero3
    /\ rigid_body_set[FindBody(World, trace.result.value).value].body_type = "dynamic"

----------------------------------------------------------------------------
(* Claims about the command queue across callbacks and steps *)

\* What processing the one text txt appends to the rigid bodies, as the
\* physics step of the same invocation then leaves each: kind and place
BodiesOfText(txt) ==
    LET w == ProcessCommand(Simulation_new, txt).physics
    IN  [i \in 1..Len(w.rigid_body_set) |->
            [shape |-> w.collider_set[i].shape.kind,
             body_type |-> w.rigid_body_set[i].body_type,
             at |-> StepBody1(w.rigid_body_set[i]).translation]]

\* The same for the texts of q, each once, first to last
RECURSIVE BodiesOfTexts(_)
BodiesOfTexts(q) ==
    IF q = <<>> THEN <<>> ELSE BodiesOfText(Head(q)) \o BodiesOfTexts(Tail(q))

\* What the texts of q add in numbers, each counted once
RECURSIVE EffectOfTexts(_)
EffectOfTexts(q) ==
    IF q = <<>> THEN Adds(0, 0, 0, 0)
    ELSE LET e == Effect(Head(q))
             r == EffectOfTexts(Tail(q))
         IN  Adds(e.bodies + r.bodies, e.particles + r.particles,
                  e.cloths + r.cloths, e.logs + r.logs)

\* C22: over any interleaving of message arrivals and Simulation.step calls,
\* every message pushed to the command queue is taken out and processed
\* exactly once, by the first step that begins after it was pushed, and in
\* arrival order; none is lost, duplicated or carried over to a later step.
\* An arrival puts its text behind the texts already waiting and touches
\* nothing else; a step takes everything that waits, applies each text once
\* in queue order and leaves the queue empty; no other call touches the queue.
C22_EachMessageOnceByNextStep ==
    [][/\ trace'.op = "onmessage" =>
             /\ \/ CMD_QUEUE' = CMD_QUEUE
                \/ \E t \in Texts : CMD_QUEUE' = Append(CMD_QUEUE, t)
             /\ UNCHANGED <<worldVars, console>>
       /\ trace'.op = "step" =>
             /\ trace'.drained = CMD_QUEUE
             /\ CMD_QUEUE' = <<>>
             /\ Len(rigid_body_set') = Len(rigid_body_set) + Len(BodiesOfTexts(CMD_QUEUE))
             /\ spawnedAt' = spawnedAt \o BodiesOfTexts(CMD_QUEUE)
             /\ Len(fluid'.positions)
                   = Len(fluid.positions) + EffectOfTexts(CMD_QUEUE).particles
             /\ Len(soft_bodies') = Len(soft_bodies) + EffectOfTexts(CMD_QUEUE).cloths
             /\ Len(console') = Len(console) + EffectOfTexts(CMD_QUEUE).logs
       /\ trace'.op \notin {"onmessage", "step"} => CMD_QUEUE' = CMD_QUEUE
      ]_vars

\* C22's case: a box arrived and a step processed it; a sphere arrived after
\* that step and the next step processed it alone.  The box has been through
\* two physics steps and the sphere through one.
C22_Witness ==
    /\ trace.op = "step"
    /\ Len(trace.drained) = 1 /\ NameOf(trace.drained[1]) = "spawn_sphere"
    /\ CMD_QUEUE = <<>>
    /\ Len(rigid_body_set) = 2
    /\ spawnedAt[1].shape = "cuboid" /\ spawnedAt[2].shape = "ball"
    /\ rigid_body_set[2].linvel = VMulDiv(WorldGravity, 1, WorldDtDen)
    /\ rigid_body_set[1].linvel = VAdd(rigid_body_set[2].linvel, rigid_body_set[2].linvel)

----------------------------------------------------------------------------
(* Claims about what SoftBody::step leaves alone *)

\* C23: SoftBody.step changes only particle positions and velocities: the
\* number of particles, the number of springs and every field of every spring
\* (p1, p2, rest_length, stiffness, damping), and each particle's mass,
\* inv_mass and pinned flag are as before the step, and so is the velocity of
\* every pinned particle.
C23_StepChangesOnlyPositionsAndVelocities ==
    [][(last'.op = "step" /\ nsteps' = nsteps + 1) =>
          /\ Len(particles') = Len(particles)
          /\ Len(springs') = Len(springs)
          /\ \A k \in 1..Len(springs) :
                /\ springs'[k].p1 = springs[k].p1
                /\ springs'[k].p2 = springs[k].p2
                /\ springs'[k].rest_length = springs[k].rest_length
                /\ springs'[k].stiffness = springs[k].stiffness
                /\ springs'[k].damping = springs[k].damping
          /\ \A i \in 1..Len(particles) :
                /\ DOMAIN particles'[i] = DOMAIN particles[i]
                /\ particles'[i].mass = particles[i].mass
                /\ particles'[i].inv_mass = particles[i].inv_mass
                /\ particles'[i].pinned = particles[i].pinned
                /\ particles[i].pinned => particles'[i].velocity = particles[i].velocity
      ]_vars

\* C23's case: a step of a body with springs moved a free particle and
\* changed its velocity, next to a pinned particle that a spring joins to it.
C23_Witness ==
    /\ last.op = "step"
    /\ Len(prev) = Len(particles)
    /\ \E k \in 1..Len(springs) :
          LET i == springs[k].p1 + 1
              j == springs[k].p2 + 1
          IN  /\ particles[i].pinned /\ ~particles[j].pinned
              /\ particles[j].position # prev[j].position
              /\ particles[j].velocity # prev[j].velocity
              /\ particles[i].velocity = prev[i].velocity

====
